---- MODULE Spec2Model ----
(***************************************************************************)
(* A model of the Quartiles solver (src/main.py): the fragment combiner    *)
(* concat, the cross-validating word checker check, and the interactive    *)
(* loop of main.                                                           *)
(*                                                                         *)
(* A Python str is modelled as a sequence of one-character strings, so     *)
(* that lowercasing, stripping, splitting and joining are computed and not *)
(* assumed.  The three dictionaries (WordNet, pyspellchecker, pyenchant)   *)
(* are external: each is a set of lowercase words it affirms, fixed when   *)
(* the process starts.  A spell-checker that failed to import is None in   *)
(* the code and FALSE here.                                                *)
(***************************************************************************)
EXTENDS Integers, Sequences, FiniteSets

VARIABLES
    SPELL,          \* _SPELL is not None       (main.py:17-21)
    ENCHANT,        \* _ENCHANT is not None     (main.py:24-28)
    wnDict,         \* words wn.synsets finds
    spDict,         \* words _SPELL.unknown does not report
    enDict,         \* words _ENCHANT.check accepts
    pc,             \* position of the running call or of main's loop
    w,              \* check: the argument
    status,         \* check: the returned label
    frags,          \* concat: the argument fragments / main: raw.split()
    minParts,       \* concat: the argument
    maxParts,       \* concat: the argument, None or Some(int)
    results,        \* concat: the returned list
    raw,            \* main: the normalised input line
    line,           \* main: the line input() returned
    debug_mode,     \* main
    labels,         \* main: the dict results, word -> status
    shown,          \* main: the colour-coded words printed
    nLines,         \* main: lines read at the fragment prompt
    concat_calls,   \* main: calls of concat so far
    check_calls,    \* main: calls of check so far
    rounds          \* main: combine-validate-display rounds finished

vars == <<SPELL, ENCHANT, wnDict, spDict, enDict, pc, w, status, frags,
          minParts, maxParts, results, raw, line, debug_mode, labels, shown,
          nLines, concat_calls, check_calls, rounds>>

(***************************************************************************)
(* Bounds of the model.                                                    *)
(***************************************************************************)
MaxFrags == 3
MaxWordLen == 4
MaxLines == 2

(***************************************************************************)
(* Python values.                                                          *)
(***************************************************************************)
None == <<>>
Some(n) == <<n>>

Max(a, b) == IF a >= b THEN a ELSE b
Min(a, b) == IF a <= b THEN a ELSE b

\* "a" * k
Rep(c, k) == [i \in 1..k |-> c]

\* str.lower(), on the characters the model uses
LowerChar(c) == CASE c = "A" -> "a" [] c = "Q" -> "q" [] OTHER -> c
lower(s) == [i \in 1..Len(s) |-> LowerChar(s[i])]

IsSpace(c) == c = " "

\* str.strip(): leading and trailing whitespace removed
RECURSIVE lstrip(_)
lstrip(s) == IF s # <<>> /\ IsSpace(Head(s)) THEN lstrip(Tail(s)) ELSE s
RECURSIVE rstrip(_)
rstrip(s) ==
    IF s # <<>> /\ IsSpace(s[Len(s)]) THEN rstrip(SubSeq(s, 1, Len(s) - 1)) ELSE s
strip(s) == rstrip(lstrip(s))

\* str.split(): the maximal runs of non-whitespace, in order
RECURSIVE splitFrom(_, _, _)
splitFrom(s, cur, acc) ==
    IF s = <<>> THEN (IF cur = <<>> THEN acc ELSE Append(acc, cur))
    ELSE IF IsSpace(Head(s))
         THEN splitFrom(Tail(s), <<>>, IF cur = <<>> THEN acc ELSE Append(acc, cur))
         ELSE splitFrom(Tail(s), Append(cur, Head(s)), acc)
split(s) == splitFrom(s, <<>>, <<>>)

\* "".join(perm)
RECURSIVE join(_)
join(parts) == IF parts = <<>> THEN <<>> ELSE Head(parts) \o join(Tail(parts))

\* a list without its i-th element
RemoveAt(s, i) == SubSeq(s, 1, i - 1) \o SubSeq(s, i + 1, Len(s))

\* itertools.permutations(pool, r): the r-length tuples of elements at
\* distinct positions, in lexicographic order of the positions
RECURSIVE permutations(_, _)
RECURSIVE permsFromHead(_, _, _)
permsFromHead(pool, r, i) ==
    IF i > Len(pool) THEN <<>>
    ELSE LET rest == permutations(RemoveAt(pool, i), r - 1)
         IN  [j \in 1..Len(rest) |-> <<pool[i]>> \o rest[j]]
             \o permsFromHead(pool, r, i + 1)
permutations(pool, r) ==
    IF r = 0 THEN << <<>> >> ELSE permsFromHead(pool, r, 1)

(***************************************************************************)
(* concat (main.py:98-126)                                                 *)
(***************************************************************************)
\* the loop of lines 122-125, from k up to hi
RECURSIVE concatLoop(_, _, _)
concatLoop(fs, k, hi) ==
    IF k > hi THEN <<>>
    ELSE LET perms == permutations(fs, k)
         IN  [j \in 1..Len(perms) |-> join(perms[j])] \o concatLoop(fs, k + 1, hi)

\* the loop with range(minParts, maxParts), dropping the last size
concatLoopShort(fs, k, hi) == concatLoop(fs, k, hi - 1)

\* the loop using a selection with replacement for sizes above 1
concatLoopRepeat(fs, k, hi) ==
    concatLoop(fs, k, hi)
    \o (IF k <= 2 /\ 2 <= hi /\ Len(fs) >= 1 THEN <<fs[1] \o fs[1]>> ELSE <<>>)

concatRange(fs, k, hi) == concatLoop(fs, k, hi)

\* the guard of line 119 written with >=
concatEmptyGe(lo, hi) == lo >= hi

concatEmpty(lo, hi) == lo > hi

concat(fragments, minP, maxP) ==
    LET n  == Len(fragments)
        mx == IF maxP = None THEN n ELSE maxP[1]
        lo == Max(1, minP)
        hi == Min(n, mx)
    IN  IF n = 0 THEN <<>>
        ELSE IF concatEmpty(lo, hi) THEN <<>>
        ELSE concatRange(fragments, lo, hi)

(***************************************************************************)
(* check (main.py:36-96)                                                   *)
(***************************************************************************)
\* line 58: wn.synsets(wl) is non-empty
wordnet_valid(wl) == wl \in wnDict

\* lines 63-66: skipped when _SPELL is None
spell_valid(wl) == SPELL /\ wl \in spDict

\* lines 69-72: skipped when _ENCHANT is None
enchant_valid(wl) == ENCHANT /\ wl \in enDict

validators_passed(wl) ==
    (IF wordnet_valid(wl) THEN 1 ELSE 0)
    + (IF spell_valid(wl) THEN 1 ELSE 0)
    + (IF enchant_valid(wl) THEN 1 ELSE 0)

\* the count taken over the optional checkers only
total_validators_optional == (IF SPELL THEN 1 ELSE 0) + (IF ENCHANT THEN 1 ELSE 0)

\* line 79: counts WordNet and pyspellchecker whether or not _SPELL loaded
total_validators == 2 + (IF ENCHANT THEN 1 ELSE 0)

is_short(wl) == Len(wl) <= 3

\* the short-word branch asking for more than two agreeing checkers
classify_short_over_two(passed, wn_ok) ==
    IF passed = total_validators /\ wn_ok THEN "valid"
    ELSE IF passed > 2 /\ wn_ok THEN "unsure"
    ELSE "invalid"

\* lines 83-88
classify_short(passed, wn_ok) ==
    IF passed = total_validators /\ wn_ok THEN "valid"
    ELSE IF passed >= 2 /\ wn_ok THEN "unsure"
    ELSE "invalid"

\* the long-word branch accepting all but one checker without WordNet
classify_long_no_wordnet(passed, wn_ok) ==
    IF passed = total_validators THEN "valid"
    ELSE IF passed >= total_validators - 1 THEN "unsure"
    ELSE "invalid"

\* lines 91-96
classify_long(passed, wn_ok) ==
    IF passed = total_validators THEN "valid"
    ELSE IF passed >= total_validators - 1 /\ wn_ok THEN "unsure"
    ELSE "invalid"

check(word) ==
    IF word = <<>> THEN "invalid"
    ELSE LET wl == lower(word)
             passed == validators_passed(wl)
             wn_ok == wordnet_valid(wl)
         IN  IF is_short(wl) THEN classify_short(passed, wn_ok)
             ELSE classify_long(passed, wn_ok)

(***************************************************************************)
(* The inputs of the model.                                                *)
(***************************************************************************)
\* the lowercase words a dictionary may hold: a, aa, ..., up to MaxWordLen
DictWords == {Rep("a", k) : k \in 1..MaxWordLen}

\* the words check is called with: the empty string, the lowercase words
\* and the same words capitalised
TestWords ==
    {<<>>} \cup DictWords \cup {<<"A">> \o Rep("a", k - 1) : k \in 1..MaxWordLen}

\* the fragments concat is called with; aq is also a followed by q
Frags == {<<"a">>, <<"q">>, <<"a", "q">>}

RECURSIVE SeqsUpTo(_, _)
SeqsUpTo(S, n) ==
    IF n = 0 THEN {<<>>}
    ELSE LET shorter == SeqsUpTo(S, n - 1)
         IN  shorter \cup {Append(s, x) : s \in {t \in shorter : Len(t) = n - 1}, x \in S}

FragLists == SeqsUpTo(Frags, MaxFrags)

PartsRange == (-1)..(MaxFrags + 2)

\* the variables of main's loop, where no loop runs
NoLoop ==
    /\ raw = <<>>
    /\ line = <<>>
    /\ debug_mode = FALSE
    /\ labels = <<>>
    /\ shown = {}
    /\ nLines = 0
    /\ concat_calls = 0
    /\ check_calls = 0
    /\ rounds = 0

\* the dictionaries after the imports of lines 10-28
Imports(words) ==
    /\ SPELL \in BOOLEAN
    /\ ENCHANT \in BOOLEAN
    /\ wnDict \in SUBSET words
    /\ spDict \in (IF SPELL THEN SUBSET words ELSE {{}})
    /\ enDict \in (IF ENCHANT THEN SUBSET words ELSE {{}})

(***************************************************************************)
(* SpecConcat: one call of concat on any fragment list and bounds.         *)
(***************************************************************************)
InitConcat ==
    /\ SPELL = FALSE /\ ENCHANT = FALSE
    /\ wnDict = {} /\ spDict = {} /\ enDict = {}
    /\ pc = "concat_call"
    /\ w = <<>> /\ status = "none"
    /\ frags \in FragLists
    /\ minParts \in PartsRange
    /\ maxParts \in {None} \cup {Some(m) : m \in PartsRange}
    /\ results = <<>>
    /\ NoLoop

ConcatCall ==
    /\ pc = "concat_call"
    /\ results' = concat(frags, minParts, maxParts)
    /\ pc' = "concat_ret"
    /\ UNCHANGED <<SPELL, ENCHANT, wnDict, spDict, enDict, w, status, frags,
                   minParts, maxParts, raw, line, debug_mode, labels, shown,
                   nLines, concat_calls, check_calls, rounds>>

NextConcat == ConcatCall

SpecConcat == InitConcat /\ [][NextConcat]_vars

(***************************************************************************)
(* SpecCheck: one call of check on any word, under any availability of the *)
(* optional spell-checkers and any dictionary contents.                    *)
(***************************************************************************)
InitCheck ==
    /\ Imports(DictWords)
    /\ pc = "check_call"
    /\ w = <<>> /\ status = "none"
    /\ frags = <<>> /\ minParts = 1 /\ maxParts = None /\ results = <<>>
    /\ NoLoop

CheckCall ==
    /\ pc = "check_call"
    /\ \E word \in TestWords :
          /\ w' = word
          /\ status' = check(word)
    /\ pc' = "check_ret"
    /\ UNCHANGED <<SPELL, ENCHANT, wnDict, spDict, enDict, frags, minParts,
                   maxParts, results, raw, line, debug_mode, labels, shown,
                   nLines, concat_calls, check_calls, rounds>>

NextCheck == CheckCall

SpecCheck == InitCheck /\ [][NextCheck]_vars

(***************************************************************************)
(* Properties of concat, checked under SpecConcat.                         *)
(***************************************************************************)
Range(s) == {s[i] : i \in 1..Len(s)}

RECURSIVE Factorial(_)
Factorial(n) == IF n = 0 THEN 1 ELSE n * Factorial(n - 1)

\* sum over k = 1..upto of n!/(n-k)!
RECURSIVE ArrangementCount(_, _)
ArrangementCount(n, upto) ==
    IF upto = 0 THEN 0
    ELSE Factorial(n) \div Factorial(n - upto) + ArrangementCount(n, upto - 1)

\* the ordered selections of k distinct positions of 1..n, for k in lo..hi
Selections(n, lo, hi) ==
    UNION {{s \in [1..k -> 1..n] : \A i, j \in 1..k : s[i] = s[j] => i = j} : k \in lo..hi}

\* the fragments at the selected positions, concatenated in selection order
EntryOf(fs, sel) == join([i \in 1..Len(sel) |-> fs[sel[i]]])

\* res holds exactly one entry for each selection, and nothing else
OneEntryPerSelection(res, fs, sels) ==
    /\ Len(res) = Cardinality(sels)
    /\ \A x \in Range(res) \cup {EntryOf(fs, s) : s \in sels} :
          Cardinality({i \in 1..Len(res) : res[i] = x})
              = Cardinality({s \in sels : EntryOf(fs, s) = x})

\* a bound clamped to [1, n] on both sides
ClampBoth(x, n) == Max(1, Min(n, x))

MaxPartsOrN == IF maxParts = None THEN Len(frags) ELSE maxParts[1]

\* C1: for a non-empty fragment list of size n, concat(fragments, 1, n)
\* returns exactly sum_{k=1}^{n} n!/(n-k)! list entries, equal strings
\* counted once each time they occur.
C1_Count ==
    (pc = "concat_ret" /\ Len(frags) >= 1 /\ minParts = 1
        /\ maxParts = Some(Len(frags)))
    => Len(results) = ArrangementCount(Len(frags), Len(frags))

\* three fragments give 15 entries, two of them the same string
C1_Witness ==
    /\ pc = "concat_ret" /\ Len(frags) = 3 /\ minParts = 1 /\ maxParts = Some(3)
    /\ Len(results) = 15
    /\ Cardinality(Range(results)) < 15

\* C2 as claimed: with BOTH bounds clamped to [1, n] on both sides, concat
\* returns exactly one entry per ordered selection of k distinct positions
\* for k in the clamped range, and nothing else.
C2_BothClamped ==
    pc = "concat_ret"
    => OneEntryPerSelection(results, frags,
           Selections(Len(frags), ClampBoth(minParts, Len(frags)),
                      ClampBoth(MaxPartsOrN, Len(frags))))

\* C2 as amended: with minParts raised to at least 1 and maxParts (n when
\* None) lowered to at most n, concat returns exactly one entry per ordered
\* selection of k distinct positions for k in minParts..maxParts, the entry
\* being the selected fragments concatenated in selection order, and nothing
\* else; a single fragment under the default bounds yields only itself.
C2_Selections ==
    pc = "concat_ret"
    => /\ OneEntryPerSelection(results, frags,
              Selections(Len(frags), Max(1, minParts), Min(Len(frags), MaxPartsOrN)))
       /\ (Len(frags) = 1 /\ minParts = 1 /\ maxParts = None) => results = frags

\* bounds outside [1, n] on both sides, sizes 1..3 all produced
C2_Witness ==
    /\ pc = "concat_ret" /\ Len(frags) = 3
    /\ minParts = -1 /\ maxParts = Some(5)
    /\ Len(results) = 15
    /\ <<"a", "q", "a", "q">> \in Range(results)

\* C3 as claimed: the result is empty exactly when the fragment list is empty
\* or minParts > maxParts after clamping both bounds to [1, n].
C3_BothClamped ==
    pc = "concat_ret"
    => (results = <<>>
        <=> (Len(frags) = 0
             \/ ClampBoth(minParts, Len(frags)) > ClampBoth(MaxPartsOrN, Len(frags))))

\* C3 as amended: the result is empty exactly when the fragment list is empty
\* or max(1, minParts) > min(n, maxParts), and non-empty in every other case,
\* for every integer minParts and maxParts.
C3_Empty ==
    pc = "concat_ret"
    => (results = <<>>
        <=> (Len(frags) = 0 \/ Max(1, minParts) > Min(Len(frags), MaxPartsOrN)))

\* a non-empty list with a negative minimum and a zero maximum gives nothing
C3_Witness ==
    /\ pc = "concat_ret" /\ Len(frags) = 2
    /\ minParts = -1 /\ maxParts = Some(0)
    /\ results = <<>>

(***************************************************************************)
(* Properties of check, checked under SpecCheck.                           *)
(***************************************************************************)
\* the oracles that loaded: WordNet always, each spell-checker if imported
Available ==
    {"wordnet"} \cup (IF SPELL THEN {"spell"} ELSE {})
                \cup (IF ENCHANT THEN {"enchant"} ELSE {})

DictOf(o) ==
    CASE o = "wordnet" -> wnDict [] o = "spell" -> spDict [] o = "enchant" -> enDict

\* the available oracles that know the lowercased word
Affirming == {o \in Available : lower(w) \in DictOf(o)}

Returned == pc = "check_ret"

\* C4: for a non-empty word of length <= 3, check returns 'valid' exactly
\* when all available oracles affirm it and the primary affirms it, otherwise
\* 'unsure' exactly when at least 2 oracles and the primary affirm it, and
\* otherwise 'invalid'.
C4_ShortThresholds ==
    (Returned /\ Len(w) >= 1 /\ Len(w) <= 3)
    => status = (IF Affirming = Available /\ "wordnet" \in Affirming THEN "valid"
                 ELSE IF Cardinality(Affirming) >= 2 /\ "wordnet" \in Affirming
                      THEN "unsure"
                 ELSE "invalid")

\* C5: for a word of length > 3, check returns 'valid' exactly when all
\* available oracles affirm it, otherwise 'unsure' exactly when at least
\* (total - 1) oracles and the primary affirm it, and otherwise 'invalid',
\* total being the number of oracles available.
C5_LongThresholds ==
    (Returned /\ Len(w) > 3)
    => status = (IF Affirming = Available THEN "valid"
                 ELSE IF Cardinality(Affirming) >= Cardinality(Available) - 1
                         /\ "wordnet" \in Affirming
                      THEN "unsure"
                 ELSE "invalid")

\* C6: in each of the four availability configurations, a 2-letter string
\* affirmed by every available oracle is classified 'valid'.
C6_AllAffirmValid ==
    (Returned /\ Len(w) = 2 /\ Affirming = Available) => status = "valid"

\* C7 as claimed: with at least 2 oracles available, a 2-letter string
\* affirmed by the primary and exactly one other oracle is 'unsure'.
C7_TwoOrMoreAvailable ==
    (Returned /\ Len(w) = 2 /\ Cardinality(Available) >= 2
        /\ "wordnet" \in Affirming /\ Cardinality(Affirming) = 2)
    => status = "unsure"

\* C7 as amended: with all 3 oracles available, a 2-letter string affirmed by
\* the primary and exactly one other oracle, and not by the third, is
\* 'unsure'.
C7_PrimaryPlusOne ==
    (Returned /\ Len(w) = 2 /\ Cardinality(Available) = 3
        /\ "wordnet" \in Affirming /\ Cardinality(Affirming) = 2)
    => status = "unsure"

\* WordNet and enchant know Aa, pyspellchecker does not
C7_Witness ==
    /\ Returned /\ w = <<"A", "a">>
    /\ SPELL /\ ENCHANT
    /\ Affirming = {"wordnet", "enchant"}
    /\ status = "unsure"

\* C8: a string that no oracle affirms is 'invalid', whatever its length
\* (the empty string included) and whichever oracles are available.
C8_NoAgreementInvalid ==
    (Returned /\ Affirming = {}) => status = "invalid"

\* a long word unknown to all three loaded oracles, which know other words
C8_Witness ==
    /\ Returned /\ Len(w) > 3 /\ Available = {"wordnet", "spell", "enchant"}
    /\ Affirming = {}
    /\ wnDict # {} /\ spDict # {} /\ enDict # {}
    /\ status = "invalid"

MainMinParts == 1
MainMaxParts == 4

\* the lines typed at the fragment prompt: empty, blank, the sentinel in
\* both cases and padded, one fragment, two fragments, two equal fragments
\* separated by two spaces, and a fragment list that starts with q
InputLines ==
    { <<>>, <<" ">>, <<"q">>, <<" ", "Q", " ">>, <<"a">>,
      <<"a", " ", "a", "a">>, <<"a", "a", " ", " ", "a", "a">>,
      <<"Q", " ", "a">> }

\* the lines typed at the debug prompt
DebugLines == { <<>>, <<"n">>, <<"y">>, <<" ", "Y">> }

\* the words the dictionaries of the whole program may hold
MainWords == {Rep("a", 2), Rep("a", 4)}

\* a test of the line that no input satisfies
never_blank(r) == FALSE

\* line 131: not raw
not_raw(r) == r = <<>>

\* line 134: raw.lower() in {"q"}
is_quit(r) == lower(r) \in {<<"q">>}

Init ==
    /\ Imports(MainWords)
    /\ pc = "prompt"
    /\ w = <<>> /\ status = "none"
    /\ frags = <<>> /\ minParts = MainMinParts /\ maxParts = Some(MainMaxParts)
    /\ results = <<>>
    /\ NoLoop

\* lines 130-137: one line read at the fragment prompt
ReadFragments ==
    /\ pc = "prompt"
    /\ nLines < MaxLines
    /\ \E l \in InputLines :
          LET r == strip(lower(l))
          IN  /\ line' = l
              /\ raw' = r
              /\ IF not_raw(r) THEN pc' = "prompt" /\ frags' = frags
                 ELSE IF is_quit(r) THEN pc' = "done" /\ frags' = frags
                 ELSE pc' = "debug_prompt" /\ frags' = split(r)
    /\ nLines' = nLines + 1
    /\ UNCHANGED <<SPELL, ENCHANT, wnDict, spDict, enDict, w, status, minParts,
                   maxParts, results, debug_mode, labels, shown, concat_calls,
                   check_calls, rounds>>

\* lines 141-215: the debug prompt, then one round: combine, validate each
\* candidate, print the valid and unsure words in colour
Round ==
    /\ pc = "debug_prompt"
    /\ \E d \in DebugLines : debug_mode' = (strip(lower(d)) = <<"y">>)
    /\ LET candidates == concat(frags, minParts, maxParts)
           checked == [word \in Range(candidates) |-> check(word)]
       IN  /\ results' = candidates
           /\ labels' = checked
           /\ shown' = {<<word, checked[word]>> : word \in
                           {x \in DOMAIN checked : checked[x] \in {"valid", "unsure"}}}
           /\ concat_calls' = concat_calls + 1
           /\ check_calls' = check_calls + Len(candidates)
    /\ rounds' = rounds + 1
    /\ pc' = "prompt"
    /\ UNCHANGED <<SPELL, ENCHANT, wnDict, spDict, enDict, w, status, frags,
                   minParts, maxParts, raw, line, nLines>>

Next == ReadFragments \/ Round

Spec == Init /\ [][Next]_vars

(***************************************************************************)
(* Properties of the loop, checked under Spec.                             *)
(***************************************************************************)
\* an empty or whitespace-only line
Blank(l) == \A i \in 1..Len(l) : l[i] = " "

\* the sentinel: one q, in either case, and whitespace around it
Sentinel(l) ==
    \E i \in 1..Len(l) :
        /\ l[i] \in {"q", "Q"}
        /\ \A j \in 1..Len(l) : j # i => l[j] = " "

NoCalls ==
    /\ concat_calls' = concat_calls
    /\ check_calls' = check_calls
    /\ rounds' = rounds

\* C9: a blank line runs neither the combiner nor the validator and leads
\* back to the fragment prompt; the loop ends only on the sentinel q; every
\* other line leads to exactly one combine-validate-display round (one call
\* of concat, one call of check per candidate) and then back to the prompt.
C9_Loop ==
    [][ /\ (pc = "prompt" /\ Blank(line')) => (pc' = "prompt" /\ NoCalls)
        /\ (pc = "prompt" /\ Sentinel(line')) => (pc' = "done" /\ NoCalls)
        /\ (pc' = "done") => (pc = "prompt" /\ Sentinel(line'))
        /\ (pc = "prompt" /\ ~Blank(line') /\ ~Sentinel(line'))
              => (pc' = "debug_prompt" /\ NoCalls)
        /\ (pc = "debug_prompt")
              => /\ pc' = "prompt"
                 /\ rounds' = rounds + 1
                 /\ concat_calls' = concat_calls + 1
                 /\ check_calls' = check_calls + Len(results')
                 /\ nLines' = nLines
      ]_vars

\* a blank line and then the line "a aa": one round, four candidates, and
\* the loop is back at the fragment prompt
C9_Witness ==
    /\ pc = "prompt" /\ nLines = 2 /\ line = <<"a", " ", "a", "a">>
    /\ rounds = 1 /\ concat_calls = 1 /\ check_calls = 4

====
